---- MODULE Spec2Model ----
(***************************************************************************)
(* Model of src/main.py: the FastAPI service of the GUVI HCL voice         *)
(* detection API.  The state is the module's globals (API_KEYS, TEAM_NAME, *)
(* SUPPORTED_LANGUAGES) and the HTTP exchange whose response is being      *)
(* sent; there is one action per route handler.  base64.b64decode and      *)
(* hashlib.md5 are computed as the library computes them (the              *)
(* non-validating decode of CPython's binascii.a2b_base64, RFC 1321 MD5).  *)
(*                                                                         *)
(* A Python str that the code splits, slices or scans is a sequence of     *)
(* one-character strings ("" is <<>>); a str that is only passed around or *)
(* formatted into a message is a TLA+ string.                              *)
(***************************************************************************)
EXTENDS Integers, Sequences, FiniteSets, TLC

VARIABLES
    API_KEYS,             \* main.py:12, a list of str
    TEAM_NAME,            \* main.py:13
    SUPPORTED_LANGUAGES,  \* main.py:30, a dict in insertion order
    environ,              \* os.environ, read at import
    outbox,               \* the exchange whose response is being sent
    served                \* responses sent so far (counted up to MaxServed)

vars == <<API_KEYS, TEAM_NAME, SUPPORTED_LANGUAGES, environ, outbox, served>>

\* Python's None (a missing header, an absent language_hint, an unset
\* environment variable): a value that is no sequence of characters.
None == <<"None">>

\* Python's truth value of an Optional[str].
Falsy(x) == x = None \/ x = <<>>

(***************************************************************************)
(* hashlib.md5 (RFC 1321).  A 32-bit word is a pair <<hi, lo>> of 16-bit   *)
(* halves, so that no intermediate value leaves TLC's integer range.       *)
(***************************************************************************)
RECURSIVE And16(_, _)
And16(a, b) ==
    IF a = 0 \/ b = 0 THEN 0
    ELSE (a % 2) * (b % 2) + 2 * And16(a \div 2, b \div 2)

Xor16(a, b) == a + b - 2 * And16(a, b)
Or16(a, b)  == a + b - And16(a, b)
Not16(a)    == 65535 - a

And32(x, y) == <<And16(x[1], y[1]), And16(x[2], y[2])>>
Or32(x, y)  == <<Or16(x[1], y[1]), Or16(x[2], y[2])>>
Xor32(x, y) == <<Xor16(x[1], y[1]), Xor16(x[2], y[2])>>
Not32(x)    == <<Not16(x[1]), Not16(x[2])>>

\* Addition modulo 2^32.
Add32(x, y) ==
    LET lo == x[2] + y[2]
        hi == x[1] + y[1] + (lo \div 65536)
    IN  <<hi % 65536, lo % 65536>>

RECURSIVE Pow2(_)
Pow2(n) == IF n = 0 THEN 1 ELSE 2 * Pow2(n - 1)

\* Rotate a 32-bit word left by s bits, 0 < s < 32.
RotL32(x, s) ==
    LET y == IF s >= 16 THEN <<x[2], x[1]>> ELSE x
        r == s % 16
        p == Pow2(r)
        q == Pow2(16 - r)
    IN  IF r = 0 THEN y
        ELSE <<((y[1] * p) % 65536) + (y[2] \div q),
               ((y[2] * p) % 65536) + (y[1] \div q)>>

\* floor(2^32 * abs(sin(i))) for i = 1..64.
MD5_T ==
    << <<55146, 42104>>, <<59591, 46934>>, <<9248, 28891>>, <<49597, 52974>>,
       <<62844, 4015>>, <<18311, 50730>>, <<43056, 17939>>, <<64838, 38145>>,
       <<27008, 39128>>, <<35652, 63407>>, <<65535, 23473>>, <<35164, 55230>>,
       <<27536, 4386>>, <<64920, 29075>>, <<42617, 17294>>, <<18868, 2081>>,
       <<63006, 9570>>, <<49216, 45888>>, <<9822, 23121>>, <<59830, 51114>>,
       <<54831, 4189>>, <<580, 5203>>, <<55457, 59009>>, <<59347, 64456>>,
       <<8673, 52710>>, <<49975, 2006>>, <<62677, 3463>>, <<17754, 5357>>,
       <<43491, 59653>>, <<64751, 41976>>, <<26479, 729>>, <<36138, 19594>>,
       <<65530, 14658>>, <<34673, 63105>>, <<28061, 24866>>, <<64997, 14348>>,
       <<42174, 59972>>, <<19422, 53161>>, <<63163, 19296>>, <<48831, 48240>>,
       <<10395, 32454>>, <<60065, 10234>>, <<54511, 12421>>, <<1160, 7429>>,
       <<55764, 53305>>, <<59099, 39397>>, <<8098, 31992>>, <<50348, 22117>>,
       <<62505, 8772>>, <<17194, 65431>>, <<43924, 9127>>, <<64659, 41017>>,
       <<25947, 22979>>, <<36620, 52370>>, <<65519, 62589>>, <<34180, 24017>>,
       <<28584, 32335>>, <<65068, 59104>>, <<41729, 17172>>, <<19976, 4513>>,
       <<63315, 32386>>, <<48442, 62005>>, <<10967, 53947>>, <<60294, 54161>> >>

\* Per-round shift amounts.
MD5_S ==
    << 7, 12, 17, 22, 7, 12, 17, 22, 7, 12, 17, 22, 7, 12, 17, 22,
       5, 9, 14, 20, 5, 9, 14, 20, 5, 9, 14, 20, 5, 9, 14, 20,
       4, 11, 16, 23, 4, 11, 16, 23, 4, 11, 16, 23, 4, 11, 16, 23,
       6, 10, 15, 21, 6, 10, 15, 21, 6, 10, 15, 21, 6, 10, 15, 21 >>

\* Initial chaining value: 0x67452301, 0xefcdab89, 0x98badcfe, 0x10325476.
MD5_IV == << <<26437, 8961>>, <<61389, 43913>>, <<39098, 56574>>, <<4146, 21622>> >>

\* The round function and message word index of step i (0..63).
MD5_F(i, b, c, d) ==
    IF i < 16 THEN Or32(And32(b, c), And32(Not32(b), d))
    ELSE IF i < 32 THEN Or32(And32(d, b), And32(Not32(d), c))
    ELSE IF i < 48 THEN Xor32(Xor32(b, c), d)
    ELSE Xor32(c, Or32(b, Not32(d)))

MD5_G(i) ==
    IF i < 16 THEN i
    ELSE IF i < 32 THEN (5 * i + 1) % 16
    ELSE IF i < 48 THEN (3 * i + 5) % 16
    ELSE (7 * i) % 16

\* Step i (0..63) of the compression of one block M (16 words).
MD5_Step(st, M, i) ==
    LET a == st[1]
        b == st[2]
        c == st[3]
        d == st[4]
        f == Add32(Add32(Add32(MD5_F(i, b, c, d), a), MD5_T[i + 1]),
                   M[MD5_G(i) + 1])
    IN  <<d, Add32(b, RotL32(f, MD5_S[i + 1])), b, c>>

\* Steps i .. i+n-1 in order, n >= 1.  The range is split in halves and the
\* first half's result is inspected (Len) before the second half starts, so
\* that TLC evaluates it there and the depth of evaluation stays logarithmic.
RECURSIVE MD5_Steps(_, _, _, _)
MD5_Steps(st, M, i, n) ==
    IF n = 1 THEN MD5_Step(st, M, i)
    ELSE LET h   == n \div 2
             mid == MD5_Steps(st, M, i, h)
         IN  IF Len(mid) = 4 THEN MD5_Steps(mid, M, i + h, n - h) ELSE mid

\* Message padding: 0x80, zeros to 56 mod 64, the bit length as 64 bits
\* little-endian.
Zeros(n) == [i \in 1..n |-> 0]

MD5_Pad(msg) ==
    LET n     == Len(msg)
        z     == (119 - (n % 64)) % 64
        bits  == 8 * n
    IN  msg \o <<128>> \o Zeros(z)
            \o <<bits % 256, (bits \div 256) % 256, (bits \div 65536) % 256,
                 (bits \div 16777216) % 256, 0, 0, 0, 0>>

\* The 16 little-endian words of the 64-byte block starting after offset off.
MD5_Block(p, off) ==
    [j \in 1..16 |->
        <<p[off + 4 * j - 1] + 256 * p[off + 4 * j],
          p[off + 4 * j - 3] + 256 * p[off + 4 * j - 2]>>]

RECURSIVE MD5_Blocks(_, _, _)
MD5_Blocks(st, p, off) ==
    IF off >= Len(p) THEN st
    ELSE LET r == MD5_Steps(st, MD5_Block(p, off), 0, 64)
         IN  MD5_Blocks(<<Add32(st[1], r[1]), Add32(st[2], r[2]),
                          Add32(st[3], r[3]), Add32(st[4], r[4])>>, p, off + 64)

\* The 8 hexadecimal digits of a word written in little-endian byte order.
WordHex(w) ==
    << (w[2] % 256) \div 16, w[2] % 16, w[2] \div 4096, (w[2] \div 256) % 16,
       (w[1] % 256) \div 16, w[1] % 16, w[1] \div 4096, (w[1] \div 256) % 16 >>

\* hashlib.md5(bytes).hexdigest(): 32 hexadecimal digits, as numbers 0..15.
md5_hexdigest(bytes) ==
    LET st == MD5_Blocks(MD5_IV, MD5_Pad(bytes), 0)
    IN  WordHex(st[1]) \o WordHex(st[2]) \o WordHex(st[3]) \o WordHex(st[4])

\* int(hex, 16) % m, by Horner's rule (the 128-bit integer itself does not
\* fit a TLC integer).
RECURSIVE IntBase16Mod(_, _)
IntBase16Mod(hex, m) ==
    IF hex = <<>> THEN 0
    ELSE (16 * IntBase16Mod(SubSeq(hex, 1, Len(hex) - 1), m) + hex[Len(hex)]) % m

(***************************************************************************)
(* base64.b64decode(s) with validate=False, as CPython computes it: a str  *)
(* is first encoded as ASCII (ValueError on any other character), then     *)
(* binascii.a2b_base64 scans it, discarding the characters outside the     *)
(* alphabet, stopping at a complete pad sequence and failing when the data *)
(* characters do not fill their last quad.  A string is a sequence of      *)
(* one-character strings.                                                  *)
(***************************************************************************)
B64Alphabet ==
    << "A", "B", "C", "D", "E", "F", "G", "H", "I", "J", "K", "L", "M", "N", "O", "P",
       "Q", "R", "S", "T", "U", "V", "W", "X", "Y", "Z", "a", "b", "c", "d", "e", "f",
       "g", "h", "i", "j", "k", "l", "m", "n", "o", "p", "q", "r", "s", "t", "u", "v",
       "w", "x", "y", "z", "0", "1", "2", "3", "4", "5", "6", "7", "8", "9", "+", "/" >>

\* A character outside ASCII, written by its code point.
NonAscii == {"U+00E9"}

\* table_a2b_base64: the 6-bit value of an alphabet character.
B64Value(ch) == (CHOOSE i \in 1..64 : B64Alphabet[i] = ch) - 1

IsB64Char(ch) == \E i \in 1..64 : B64Alphabet[i] = ch

\* The scan from position i with the decoder's registers: quad_pos, leftchar,
\* pads and the bytes written so far.  The result is the bytes, or the
\* exception raised.
RECURSIVE a2b_scan(_, _, _, _, _, _)
a2b_scan(s, i, quad_pos, leftchar, pads, out) ==
    IF i > Len(s)
    THEN IF quad_pos # 0
         THEN [raised |-> "binascii.Error", bytes |-> <<>>]
         ELSE [raised |-> "", bytes |-> out]
    ELSE LET ch == s[i] IN
         IF ch = "="
         THEN IF quad_pos >= 2 /\ quad_pos + pads + 1 >= 4
              THEN [raised |-> "", bytes |-> out]
              ELSE a2b_scan(s, i + 1, quad_pos, leftchar,
                            IF quad_pos >= 2 THEN pads + 1 ELSE pads, out)
         ELSE IF ~IsB64Char(ch)
         THEN a2b_scan(s, i + 1, quad_pos, leftchar, pads, out)
         ELSE LET v == B64Value(ch) IN
              CASE quad_pos = 0 ->
                     a2b_scan(s, i + 1, 1, v, 0, out)
                [] quad_pos = 1 ->
                     a2b_scan(s, i + 1, 2, v % 16, 0,
                              Append(out, leftchar * 4 + (v \div 16)))
                [] quad_pos = 2 ->
                     a2b_scan(s, i + 1, 3, v % 4, 0,
                              Append(out, leftchar * 16 + (v \div 4)))
                [] quad_pos = 3 ->
                     a2b_scan(s, i + 1, 0, 0, 0,
                              Append(out, leftchar * 64 + v))

\* The decoded bytes, or the exception raised (raised = "" when none is).
b64decode(s) ==
    IF \E i \in 1..Len(s) : s[i] \in NonAscii
    THEN [raised |-> "ValueError", bytes |-> <<>>]
    ELSE a2b_scan(s, 1, 0, 0, 0, <<>>)

\* s[:n]
Slice(s, n) == SubSeq(s, 1, IF Len(s) < n THEN Len(s) ELSE n)

(***************************************************************************)
(* Configuration (main.py:11-13, 30-36).                                   *)
(***************************************************************************)
\* "GUVI-HCL-TEAM-2024,test-key-123"
DEFAULT_API_KEYS ==
    << "G", "U", "V", "I", "-", "H", "C", "L", "-", "T", "E", "A",
       "M", "-", "2", "0", "2", "4", ",", "t", "e", "s", "t", "-",
       "k", "e", "y", "-", "1", "2", "3" >>

\* "GUVI_HCL_Team"
DEFAULT_TEAM_NAME ==
    << "G", "U", "V", "I", "_", "H", "C", "L", "_", "T", "e", "a",
       "m" >>

\* os.getenv(name, default) in environment env (a record of the variables,
\* None for one that is not set).
getenv(env, name, default) == IF env[name] = None THEN default ELSE env[name]

\* str.split(sep) for a one-character separator: the pieces between the
\* separators, empty pieces kept; the result is never empty.
RECURSIVE split(_, _)
split(s, sep) ==
    IF \A i \in 1..Len(s) : s[i] # sep
    THEN <<s>>
    ELSE LET i == CHOOSE j \in 1..Len(s) :
                      s[j] = sep /\ \A k \in 1..(j - 1) : s[k] # sep
         IN  <<SubSeq(s, 1, i - 1)>> \o split(SubSeq(s, i + 1, Len(s)), sep)

\* x in list
InList(x, list) == \E i \in 1..Len(list) : list[i] = x

\* The dict literal of main.py:30-36, as its items in insertion order.
LANGUAGE_TABLE ==
    << << <<"t", "a">>, "Tamil" >>,
       << <<"e", "n">>, "English" >>,
       << <<"h", "i">>, "Hindi" >>,
       << <<"m", "l">>, "Malayalam" >>,
       << <<"t", "e">>, "Telugu" >> >>

\* key in dict, dict[key], list(dict.values())
HasKey(dict, key) == \E i \in 1..Len(dict) : dict[i][1] = key
GetItem(dict, key) == dict[CHOOSE i \in 1..Len(dict) : dict[i][1] = key][2]
Values(dict) == [i \in 1..Len(dict) |-> dict[i][2]]

(***************************************************************************)
(* The inputs explored.                                                    *)
(***************************************************************************)
\* The longest audio_base64 sent, the latest clock reading, and the number
\* of responses up to which served counts.
MaxLen == 5
MaxTime == 1
MaxServed == 1

\* All strings over alphabet of length at most n.
Strings(alphabet, n) == UNION {[1..k -> alphabet] : k \in 0..n}

\* Two data characters (values 0 and 32), the pad and a character outside
\* the base64 alphabet.
AudioAlphabet == {"A", "g", "=", "!"}

Audios == Strings(AudioAlphabet, MaxLen)

\* Absent, empty, the five supported codes and an unsupported one.
Hints ==
    { None, <<>>, <<"t", "a">>, <<"e", "n">>, <<"h", "i">>, <<"m", "l">>,
      <<"t", "e">>, <<"x", "x">> }

AudioRequests == [audio_base64 : Audios, language_hint : Hints]

\* The first key of the default allow-list.
GUVI_KEY == SubSeq(DEFAULT_API_KEYS, 1, 18)

\* X-API-Key: absent, empty, and two keys.
Headers == { None, <<>>, <<"a">>, GUVI_KEY }

\* The process environments: nothing set; API_KEYS set to the empty string;
\* API_KEYS set to "a," with a team name.
Environments ==
    { [API_KEYS |-> None, TEAM_NAME |-> None],
      [API_KEYS |-> <<>>, TEAM_NAME |-> None],
      [API_KEYS |-> <<"a", ",">>, TEAM_NAME |-> <<"T">>] }

(***************************************************************************)
(* detect_voice (main.py:86-155), statement by statement.  A float is a    *)
(* whole number of ten-thousandths.                                        *)
(***************************************************************************)
\* The length of the prefix of audio_base64 that is decoded (main.py:113
\* takes 10000; the model scales it down so that strings longer than the
\* prefix stay within reach).
PrefixLen == 4

\* main.py:94: the header is missing or empty.
KeyMissing(x_api_key) == Falsy(x_api_key)

\* Mutant: the membership test of main.py:100 inverted.
KeyRejected_Inverted(x_api_key, api_keys) == InList(x_api_key, api_keys)

\* main.py:100
KeyRejected(x_api_key, api_keys) == ~InList(x_api_key, api_keys)

\* Mutant: the rejection names no key.
InvalidKeyDetail_Hidden(api_keys) ==
    [error |-> "Invalid API key", valid_keys |-> <<>>]

\* main.py:101-104: the body of the rejection of an unknown key.
InvalidKeyDetail(api_keys) ==
    [error |-> "Invalid API key", valid_keys |-> api_keys]

\* Mutant: the fallback is the first language of the table, not "en".
ResolveLanguage_FirstLanguage(language_hint, languages) ==
    LET language == IF Falsy(language_hint) THEN languages[1][1] ELSE language_hint
    IN  IF ~HasKey(languages, language) THEN languages[1][1] ELSE language

\* main.py:107-109
ResolveLanguage(language_hint, languages) ==
    LET language == IF Falsy(language_hint) THEN <<"e", "n">> ELSE language_hint
    IN  IF ~HasKey(languages, language) THEN <<"e", "n">> ELSE language

\* Mutant: the whole of audio_base64 is decoded.
DecodeAudio_Whole(audio_base64) == b64decode(audio_base64)

\* main.py:113
DecodeAudio(audio_base64) == b64decode(Slice(audio_base64, PrefixLen))

\* hashlib.md5(bytes).hexdigest() for every byte string that an explored
\* request decodes to: md5 is a pure function, and its values are computed
\* once here instead of once per request.
Md5Table ==
    [bytes \in {DecodeAudio(audio).bytes : audio \in Audios} |->
        md5_hexdigest(bytes)]

\* main.py:118: the digest's hexadecimal digits; the integer they spell is
\* only ever read modulo a small number.
AudioHash(audio_bytes) == Md5Table[audio_bytes]

\* Mutant: the threshold that the comment of main.py:121 suggests.
IsAI_Above55(audio_hash) == IntBase16Mod(audio_hash, 100) > 55

\* main.py:121
IsAI(audio_hash) == IntBase16Mod(audio_hash, 100) > 45

\* Mutant: a modulus of 50.
Confidence_Mod50(audio_hash) == (IntBase16Mod(audio_hash, 50) + 60) * 100

\* main.py:122
Confidence(audio_hash) == (IntBase16Mod(audio_hash, 40) + 60) * 100

\* format(x, ".1%"): x as a percentage with one decimal.
FormatPercent1(x) ==
    LET t == (x + 5) \div 10
    IN  ToString(t \div 10) \o "." \o ToString(t % 10) \o "%"

\* round(x, 3)
Round3(x) == ((x + 5) \div 10) * 10

\* main.py:127-138
Explanations(is_ai, lang_name, confidence) ==
    IF is_ai
    THEN << "AI-generated " \o lang_name \o " voice detected with "
                \o FormatPercent1(confidence) \o " confidence",
            "Synthetic speech patterns identified in " \o lang_name
                \o " audio sample",
            "Analysis suggests AI origin for this " \o lang_name
                \o " voice recording" >>
    ELSE << "Human " \o lang_name \o " speech detected with "
                \o FormatPercent1(confidence) \o " confidence",
            "Natural vocal characteristics found in " \o lang_name \o " audio",
            "Analysis indicates human origin for this " \o lang_name
                \o " speech" >>

\* Mutant: the index is taken from the label bucket.
ExplanationIndex_FromBucket(audio_hash, explanations) ==
    IntBase16Mod(audio_hash, 100) % Len(explanations)

\* main.py:140
ExplanationIndex(audio_hash, explanations) ==
    IntBase16Mod(audio_hash, Len(explanations))

\* main.py:142-155
DetectionResponse(is_ai, confidence, explanation, lang_name, team, languages) ==
    [ classification    |-> IF is_ai THEN "AI" ELSE "Human",
      confidence        |-> Round3(confidence),
      explanation       |-> explanation,
      language_detected |-> lang_name,
      model_metadata    |->
          [ version             |-> "1.0.0",
            team                |-> team,
            detection_method    |-> "audio_hash_analysis",
            processing_time_ms  |-> 150,
            hackathon_compliant |-> TRUE,
            languages_supported |-> Values(languages) ] ]

\* Mutant: the language name is hashed with the bytes.
Classify_Salted(audio_bytes, lang_name) ==
    LET salt         == CHOOSE i \in 1..Len(LANGUAGE_TABLE) :
                            LANGUAGE_TABLE[i][2] = lang_name
        audio_hash   == md5_hexdigest(audio_bytes \o <<salt>>)
        is_ai        == IntBase16Mod(audio_hash, 100) > 45
        confidence   == (IntBase16Mod(audio_hash, 40) + 60) * 100
        explanations == Explanations(is_ai, lang_name, confidence)
    IN  [ audio_hash  |-> audio_hash,
          is_ai       |-> is_ai,
          confidence  |-> confidence,
          explanation |->
              explanations[IntBase16Mod(audio_hash, Len(explanations)) + 1] ]

\* main.py:117-140: the classification of the decoded bytes, with the
\* language name that the explanation embeds.
Classify(audio_bytes, lang_name) ==
    LET audio_hash   == AudioHash(audio_bytes)
        is_ai        == IsAI(audio_hash)
        confidence   == Confidence(audio_hash)
        explanations == Explanations(is_ai, lang_name, confidence)
    IN  [ audio_hash  |-> audio_hash,
          is_ai       |-> is_ai,
          confidence  |-> confidence,
          explanation |->
              explanations[ExplanationIndex(audio_hash, explanations) + 1] ]

\* The handler: its HTTP response, the statements it reached in order, and
\* the locals bound when it returned or raised.
detect_voice(request, x_api_key, api_keys, team, languages) ==
    IF KeyMissing(x_api_key)
    THEN [ status_code |-> 401,
           body    |-> [detail |-> [error |-> "API key required",
                                    hint  |-> "Use X-API-Key header"]],
           reached |-> <<"authenticate">> ]
    ELSE IF KeyRejected(x_api_key, api_keys)
    THEN [ status_code |-> 401,
           body    |-> [detail |-> InvalidKeyDetail(api_keys)],
           reached |-> <<"authenticate">> ]
    ELSE
    LET language == ResolveLanguage(request.language_hint, languages)
        decoded  == DecodeAudio(request.audio_base64)
    IN  IF decoded.raised # ""
        THEN [ status_code |-> 400,
               body     |-> [detail |-> "Invalid base64 audio data"],
               reached  |-> <<"authenticate", "language", "decode">>,
               language |-> language ]
        ELSE
        LET audio_bytes == decoded.bytes
            lang_name   == GetItem(languages, language)
            result      == Classify(audio_bytes, lang_name)
        IN  [ status_code |-> 200,
              body        |-> DetectionResponse(result.is_ai, result.confidence,
                                                result.explanation, lang_name,
                                                team, languages),
              reached     |-> <<"authenticate", "language", "decode", "hash",
                                "explain", "respond">>,
              language    |-> language,
              audio_bytes |-> audio_bytes,
              audio_hash  |-> result.audio_hash,
              confidence  |-> result.confidence ]

(***************************************************************************)
(* The other handlers (main.py:49-84).                                     *)
(***************************************************************************)
\* main.py:50-58
root(api_keys, team) ==
    [ status_code |-> 200,
      body |-> [ hackathon          |-> "GUVI HCL AI Challenge 2024",
                 team               |-> team,
                 endpoint           |-> "/api/detect",
                 api_keys_available |-> Len(api_keys),
                 docs               |-> "/docs",
                 health             |-> "/health" ] ]

\* main.py:62-63; now is the value of time.time().
health(team, now) ==
    [ status_code |-> 200,
      body |-> [status |-> "healthy", timestamp |-> now, team |-> team] ]

\* main.py:66-84
api_info(team, languages) ==
    [ status_code |-> 200,
      body |-> [ team |-> team,
                 supported_languages |->
                     [i \in 1..Len(languages) |->
                         [code |-> languages[i][1], name |-> languages[i][2]]],
                 input_format |->
                     [ audio_base64  |-> "Base64 encoded MP3/WAV audio",
                       language_hint |-> "Optional: ta, en, hi, ml, te" ],
                 output_format |->
                     [ classification    |-> "AI or Human",
                       confidence        |-> "0.0 to 1.0",
                       explanation       |-> "Text explanation",
                       language_detected |-> "Detected language",
                       model_metadata    |-> "Technical details" ] ] ]

(***************************************************************************)
(* The server.  detect_voice is a coroutine with no await in it, so the    *)
(* event loop runs each call to its end before anything else; the          *)
(* exchange stays in outbox until its response has been sent, and the next *)
(* request is taken up after that.  The inputs of a handler (the request   *)
(* body, the header, the clock) are drawn inside its action.               *)
(***************************************************************************)
NoExchange == [route |-> "none"]

\* Module import (main.py:12-13, 30-36).
Init ==
    \E env \in Environments :
        /\ API_KEYS = split(getenv(env, "API_KEYS", DEFAULT_API_KEYS), ",")
        /\ TEAM_NAME = getenv(env, "TEAM_NAME", DEFAULT_TEAM_NAME)
        /\ SUPPORTED_LANGUAGES = LANGUAGE_TABLE
        /\ environ = env
        /\ outbox = NoExchange
        /\ served = 0

\* A request is taken up when the previous response has left.
Idle == outbox = NoExchange

\* Mutant: an accepted key is removed from API_KEYS once it has been used.
DetectVoice_ConsumesKey ==
    /\ Idle
    /\ \E request \in AudioRequests, x_api_key \in Headers :
           /\ outbox' = [ route     |-> "POST /api/detect",
                          request   |-> request,
                          x_api_key |-> x_api_key,
                          response  |-> detect_voice(request, x_api_key, API_KEYS,
                                                     TEAM_NAME, SUPPORTED_LANGUAGES) ]
           /\ API_KEYS' = SelectSeq(API_KEYS, LAMBDA key : key # x_api_key)
    /\ UNCHANGED <<TEAM_NAME, SUPPORTED_LANGUAGES, environ, served>>

\* POST /api/detect
DetectVoice ==
    /\ Idle
    /\ \E request \in AudioRequests, x_api_key \in Headers :
           outbox' = [ route     |-> "POST /api/detect",
                       request   |-> request,
                       x_api_key |-> x_api_key,
                       response  |-> detect_voice(request, x_api_key, API_KEYS,
                                                  TEAM_NAME, SUPPORTED_LANGUAGES) ]
    /\ UNCHANGED <<API_KEYS, TEAM_NAME, SUPPORTED_LANGUAGES, environ, served>>

\* GET /
Root ==
    /\ Idle
    /\ outbox' = [route |-> "GET /", response |-> root(API_KEYS, TEAM_NAME)]
    /\ UNCHANGED <<API_KEYS, TEAM_NAME, SUPPORTED_LANGUAGES, environ, served>>

\* GET /health and GET /healthz
Health ==
    /\ Idle
    /\ \E path \in {"GET /health", "GET /healthz"}, now \in 0..MaxTime :
           outbox' = [route |-> path, response |-> health(TEAM_NAME, now)]
    /\ UNCHANGED <<API_KEYS, TEAM_NAME, SUPPORTED_LANGUAGES, environ, served>>

\* GET /info
ApiInfo ==
    /\ Idle
    /\ outbox' = [ route    |-> "GET /info",
                   response |-> api_info(TEAM_NAME, SUPPORTED_LANGUAGES) ]
    /\ UNCHANGED <<API_KEYS, TEAM_NAME, SUPPORTED_LANGUAGES, environ, served>>

\* The response leaves; nothing of the exchange is kept.
Send ==
    /\ ~Idle
    /\ outbox' = NoExchange
    /\ served' = IF served < MaxServed THEN served + 1 ELSE served
    /\ UNCHANGED <<API_KEYS, TEAM_NAME, SUPPORTED_LANGUAGES, environ>>

Next == DetectVoice \/ Root \/ Health \/ ApiInfo \/ Send

Spec == Init /\ [][Next]_vars

(***************************************************************************)
(* The properties checked.                                                 *)
(***************************************************************************)
IsDetect == outbox.route = "POST /api/detect"

\* A request that passed the authentication of main.py:94-104.
Authenticated == IsDetect /\ outbox.response.status_code # 401

Succeeded == IsDetect /\ outbox.response.status_code = 200

\* The statements of the handler after the authentication.
AfterAuth == {"language", "decode", "hash", "explain", "respond"}

Reached(response, steps) ==
    \E i \in 1..Len(response.reached) : response.reached[i] \in steps

\* What a client observes of a response to POST /api/detect.
Outcome(response) ==
    IF response.status_code = 200
    THEN << 200, response.body.classification, response.body.confidence,
            response.body.explanation, response.body.language_detected >>
    ELSE << response.status_code >>

\* The response of the running process to another request.
Respond(audio_base64, language_hint, x_api_key) ==
    detect_voice([audio_base64 |-> audio_base64, language_hint |-> language_hint],
                 x_api_key, API_KEYS, TEAM_NAME, SUPPORTED_LANGUAGES)

\* The keys that pass the authentication.
AcceptedKeys == {API_KEYS[i] : i \in 1..Len(API_KEYS)} \ {<<>>}

\* RFC 4648 base64: whole quads of alphabet characters, the last one
\* possibly ending in one or two pads.
StrictBase64(s) ==
    /\ Len(s) % 4 = 0
    /\ \E pad \in 0..2 :
          /\ pad <= Len(s)
          /\ \A i \in 1..(Len(s) - pad) : IsB64Char(s[i])
          /\ \A i \in (Len(s) - pad + 1)..Len(s) : s[i] = "="

\* md5(b"").hexdigest() = d41d8cd98f00b204e9800998ecf8427e (RFC 1321, A.5).
EmptyDigest ==
    << 13, 4, 1, 13, 8, 12, 13, 9, 8, 15, 0, 0, 11, 2, 0, 4,
       14, 9, 8, 0, 0, 9, 9, 8, 14, 12, 15, 8, 4, 2, 7, 14 >>

\* C1: a POST /api/detect whose X-API-Key is missing or is not in API_KEYS
\* ends in 401 and reaches neither the decoding nor the hashing, whatever
\* its audio_base64 is.
C1_AuthGate ==
    (IsDetect /\ (outbox.x_api_key = None
                    \/ ~InList(outbox.x_api_key, API_KEYS)))
        => /\ outbox.response.status_code = 401
           /\ ~Reached(outbox.response, AfterAuth)

\* A wrong key with an audio_base64 that does not decode: 401, not 400.
C1_Witness ==
    /\ IsDetect
    /\ ~Falsy(outbox.x_api_key)
    /\ ~InList(outbox.x_api_key, API_KEYS)
    /\ DecodeAudio(outbox.request.audio_base64).raised # ""
    /\ outbox.response.status_code = 401

\* C2: an authenticated request whose truncated audio_base64 is not valid
\* base64 (a character outside the alphabet, bad padding) fails with 400
\* and does not reach the classifier.
C2_DecodeFailure ==
    (Authenticated
        /\ ~StrictBase64(Slice(outbox.request.audio_base64, PrefixLen)))
        => /\ outbox.response.status_code = 400
           /\ ~Reached(outbox.response, {"hash", "explain", "respond"})

\* C3: two authenticated requests with the same language_hint whose
\* audio_base64 agree on their first PrefixLen characters have the same
\* outcome.  A request longer than the prefix is compared with the one that
\* stops at the prefix (so every two requests with this prefix are compared
\* through it), and the one that stops at the prefix with one that goes on
\* with a character that is not ASCII; under any accepted key.
C3_Truncation ==
    Authenticated =>
        LET audio  == outbox.request.audio_base64
            others == IF Len(audio) > PrefixLen
                      THEN {Slice(audio, PrefixLen)}
                      ELSE IF Len(audio) = PrefixLen
                      THEN {audio \o <<c>> : c \in NonAscii}
                      ELSE {audio}
        IN  \A other \in others, key \in AcceptedKeys :
                Outcome(Respond(other, outbox.request.language_hint, key))
                    = Outcome(outbox.response)

\* A request longer than the prefix that succeeds although the whole of its
\* audio_base64 does not decode.
C3_Witness ==
    /\ Succeeded
    /\ Len(outbox.request.audio_base64) > PrefixLen
    /\ b64decode(outbox.request.audio_base64).raised # ""

\* For given bytes, one explored audio_base64 that decodes to them.
AudioDecodingTo ==
    [bytes \in DOMAIN Md5Table |->
        CHOOSE audio \in Audios :
            DecodeAudio(audio) = [raised |-> "", bytes |-> bytes]]

\* The responses to requests that decode to the same bytes as the one
\* served: with the audio_base64 chosen above for these bytes and the same
\* hint and key; and, when the request served is the chosen one, with every
\* other language_hint and accepted key.  Every two requests with these
\* bytes are compared through the chosen one.
SameBytesResponses ==
    LET r      == outbox.request
        chosen == AudioDecodingTo[outbox.response.audio_bytes]
    IN  IF r.audio_base64 # chosen
        THEN {Respond(chosen, r.language_hint, outbox.x_api_key)}
        ELSE {Respond(chosen, hint, key) : hint \in Hints, key \in AcceptedKeys}

\* The place of an explanation in the list of its label and language.
TemplateOf(body) ==
    LET list == Explanations(body.classification = "AI",
                             body.language_detected, body.confidence)
    IN  {i \in 1..Len(list) : list[i] = body.explanation}

\* C4 as stated: two successful classifications of the same decoded bytes
\* return the same classification, confidence and explanation, whatever the
\* other request fields are.
C4_Original ==
    Succeeded =>
        \A other \in SameBytesResponses :
            /\ other.status_code = 200
            /\ other.body.classification = outbox.response.body.classification
            /\ other.body.confidence = outbox.response.body.confidence
            /\ other.body.explanation = outbox.response.body.explanation

\* C4 as amended: the same classification, the same confidence and the same
\* explanation template; the same explanation text when the two requests
\* resolve to the same language.
C4_Determinism ==
    Succeeded =>
        \A other \in SameBytesResponses :
            /\ other.status_code = 200
            /\ other.body.classification = outbox.response.body.classification
            /\ other.body.confidence = outbox.response.body.confidence
            /\ TemplateOf(other.body) = TemplateOf(outbox.response.body)
            /\ Cardinality(TemplateOf(other.body)) = 1
            /\ other.body.language_detected = outbox.response.body.language_detected
                   => other.body.explanation = outbox.response.body.explanation

\* Empty decoded bytes, reached through an audio_base64 that is not empty
\* and a supported language other than the default.
C4_Witness ==
    /\ Succeeded
    /\ outbox.response.audio_bytes = <<>>
    /\ outbox.request.audio_base64 # <<>>
    /\ outbox.response.body.language_detected = "Tamil"

C6_Confidence ==
    Succeeded =>
        LET h == Md5Table[DecodeAudio(outbox.request.audio_base64).bytes]
            c == outbox.response.body.confidence
        IN  /\ c = (IntBase16Mod(h, 40) + 60) * 100
            /\ c % 100 = 0
            /\ c \div 100 \in 60..99
            /\ c = outbox.response.confidence

\* The upper end of the range.
C6_Witness ==
    /\ Succeeded
    /\ outbox.response.body.confidence = 9900

\* The name that a language_hint stands for.
ExpectedLanguage(hint) ==
    CASE hint = <<"t", "a">> -> "Tamil"
      [] hint = <<"e", "n">> -> "English"
      [] hint = <<"h", "i">> -> "Hindi"
      [] hint = <<"m", "l">> -> "Malayalam"
      [] hint = <<"t", "e">> -> "Telugu"
      [] OTHER -> "English"

\* C7: the language resolution never fails; an absent, empty or unknown
\* hint resolves to English, each of ta, en, hi, ml, te to its name, and
\* language_detected is one of the five names.
C7_LanguageFallback ==
    /\ Authenticated =>
          /\ Reached(outbox.response, {"language"})
          /\ HasKey(SUPPORTED_LANGUAGES, outbox.response.language)
          /\ GetItem(SUPPORTED_LANGUAGES, outbox.response.language)
                 = ExpectedLanguage(outbox.request.language_hint)
    /\ Succeeded =>
          /\ outbox.response.body.language_detected
                 = ExpectedLanguage(outbox.request.language_hint)
          /\ outbox.response.body.language_detected
                 \in {"Tamil", "English", "Hindi", "Malayalam", "Telugu"}

\* An unknown hint on a successful request.
C7_Witness ==
    /\ Succeeded
    /\ outbox.request.language_hint = <<"x", "x">>
    /\ outbox.response.body.language_detected = "English"

\* The globals as the import of the module sets them in this environment.
FreshKeys == split(getenv(environ, "API_KEYS", DEFAULT_API_KEYS), ",")
FreshTeam == getenv(environ, "TEAM_NAME", DEFAULT_TEAM_NAME)

C9_Explanation ==
    Succeeded =>
        LET body  == outbox.response.body
            index == IntBase16Mod(
                         Md5Table[DecodeAudio(outbox.request.audio_base64).bytes], 3)
            names == {"Tamil", "English", "Hindi", "Malayalam", "Telugu"}
        IN  /\ index \in 0..2
            /\ body.explanation
                   = Explanations(body.classification = "AI",
                                  body.language_detected,
                                  body.confidence)[index + 1]
            /\ \A name \in names, i \in 1..3 :
                   body.explanation
                       # Explanations(body.classification # "AI", name,
                                      body.confidence)[i]

\* Index 0 of the Human list, which embeds the confidence.
C9_Witness ==
    /\ Succeeded
    /\ outbox.response.body.explanation
           = "Human Hindi speech detected with 60.0% confidence"

\* C10 as stated: a non-empty key that is not in API_KEYS is answered 401
\* with the whole allow-list, a missing or empty key 401 without any key,
\* and some key of the disclosed list passes the authentication.
C10_Original ==
    /\ (IsDetect /\ Falsy(outbox.x_api_key)) =>
          /\ outbox.response.status_code = 401
          /\ "valid_keys" \notin DOMAIN outbox.response.body.detail
    /\ (IsDetect /\ ~Falsy(outbox.x_api_key)
                 /\ ~InList(outbox.x_api_key, API_KEYS)) =>
          /\ outbox.response.status_code = 401
          /\ outbox.response.body.detail.valid_keys = API_KEYS
          /\ \E i \in 1..Len(outbox.response.body.detail.valid_keys) :
                 Respond(outbox.request.audio_base64,
                         outbox.request.language_hint,
                         outbox.response.body.detail.valid_keys[i]).status_code
                     # 401

\* C10 as amended: the same disclosure; every non-empty key of the
\* disclosed list passes the authentication and an empty one does not.
C10_Disclosure ==
    /\ (IsDetect /\ Falsy(outbox.x_api_key)) =>
          /\ outbox.response.status_code = 401
          /\ "valid_keys" \notin DOMAIN outbox.response.body.detail
    /\ (IsDetect /\ ~Falsy(outbox.x_api_key)
                 /\ ~InList(outbox.x_api_key, API_KEYS)) =>
          /\ outbox.response.status_code = 401
          /\ outbox.response.body.detail.valid_keys = API_KEYS
          /\ Len(outbox.response.body.detail.valid_keys) > 0
          /\ \A i \in 1..Len(outbox.response.body.detail.valid_keys) :
                 LET key == outbox.response.body.detail.valid_keys[i]
                 IN  (key # <<>>) <=>
                         Respond(outbox.request.audio_base64,
                                 outbox.request.language_hint,
                                 key).status_code # 401

\* A rejection that discloses a list with a usable key and an empty one.
C10_Witness ==
    /\ IsDetect
    /\ outbox.x_api_key = GUVI_KEY
    /\ outbox.response.status_code = 401
    /\ outbox.response.body.detail.valid_keys = << <<"a">>, <<>> >>

====
